---- MODULE Spec2Model ----
(***************************************************************************)
(* Model of the load stage (src/src/load.py): PostgresLoader.load() and    *)
(* the destination table it writes to.                                     *)
(*                                                                         *)
(* The destination store is the record db; every loader object is a record *)
(* loader[l] holding the object's fields (engine, connection, metrics),    *)
(* the locals of the running load() call (df, mode, the batch offset i)    *)
(* and its position pc.  Every statement that talks to the store is one    *)
(* action, and each of them can raise.                                     *)
(*                                                                         *)
(* The record main is the main() of a pipeline script (src/pipelines) with *)
(* the extract and transform stages it calls before the load stage.        *)
(***************************************************************************)
EXTENDS Integers, Sequences, FiniteSets, TLC

VARIABLES db, loader, calls, issued, hist, main

vars == <<db, loader, calls, issued, hist, main>>

----------------------------------------------------------------------------
(* Bounds of the model *)

MaxRows == 3        \* longest dataset given to a single load()
MaxRowsSeq == 1     \* longest dataset when load() is called twice
MaxCode == 2        \* values of the key column are 1..MaxCode
MaxInitRows == 2    \* rows already in the destination table
MaxElapsed == 1     \* elapsed seconds are 1..MaxElapsed
MaxRowsConc == 3    \* longest dataset when two load() calls run concurrently
MaxRaw == 2         \* longest dataset the API returns or the raw file holds

\* load.py:236/289 set batch_size = 1000.  The model keeps the name and
\* scales the value down, so that datasets of several batches stay small.
batch_size == 2

----------------------------------------------------------------------------
(* Column names are character sequences, so that startswith('_') is        *)
(* computed from the name.                                                 *)

codigo == <<"c", "o", "d", "i", "g", "o">>
descricao == <<"d", "e", "s", "c", "r", "i", "c", "a", "o">>
fonte == <<"f", "o", "n", "t", "e">>
_raw == <<"_", "r", "a", "w">>

Base == {codigo, descricao}

ColSets == {Base, Base \cup {_raw}, Base \cup {fonte}}

SeqColSets == {Base, Base \cup {_raw}}

NULL == "NULL"

Descs == {"a", "b"}

Codes == 1..MaxCode

MkRow(k, d, cs) ==
    [c \in cs |-> IF c = codigo THEN k
                  ELSE IF c = descricao THEN d
                  ELSE IF c = fonte THEN "f"
                  ELSE "m"]

RowsOf(cs, ds) == {MkRow(k, d, cs) : k \in Codes, d \in ds}

SeqsUpTo(S, n) == UNION {[1..k -> S] : k \in 0..n}

DatasetsOver(cs, ds, n) == {[cols |-> cs, rows |-> rs] : rs \in SeqsUpTo(RowsOf(cs, ds), n)}

\* every dataset over the base columns, and the datasets of one description
\* over the other column sets
Datasets ==
    DatasetsOver(Base, Descs, MaxRows)
    \cup UNION {DatasetsOver(cs, {"a"}, MaxRows) : cs \in ColSets \ {Base}}

SeqDatasets == UNION {DatasetsOver(cs, {"a"}, MaxRowsSeq) : cs \in SeqColSets}

NoDf == [cols |-> {}, rows |-> <<>>]

\* what the newest *_processed_*.csv holds when load() is called without df
LatestFile == [cols |-> Base \cup {_raw}, rows |-> <<MkRow(1, "b", Base \cup {_raw})>>]

Modes == {"replace", "append", "upsert", "merge"}

----------------------------------------------------------------------------
(* The destination store *)

PriorRows(cs, n) == [k \in 1..n |-> MkRow(k, "o", cs)]

AbsentDb(s) == [schema |-> s, exists |-> FALSE, cols |-> {}, unique |-> FALSE, rows |-> <<>>]

PresentDb(cs, u, n) ==
    [schema |-> TRUE, exists |-> TRUE, cols |-> cs, unique |-> u, rows |-> PriorRows(cs, n)]

InitDbs ==
    {AbsentDb(s) : s \in BOOLEAN}
    \cup {PresentDb(cs, u, n) : cs \in {Base, Base \cup {fonte}}, u \in BOOLEAN, n \in {0, MaxInitRows}}

SeqInitDbs ==
    {AbsentDb(FALSE)} \cup {PresentDb(Base, u, 1) : u \in BOOLEAN}

----------------------------------------------------------------------------
(* Pure helpers of load.py *)

startswith_(col) == Len(col) > 0 /\ col[1] = "_"

\* _clean_dataframe that drops nothing
_clean_dataframe_keeps_all(df) == df

_clean_dataframe(df) ==
    LET internal_cols == {col \in df.cols : startswith_(col)}
        keep == df.cols \ internal_cols
    IN  [cols |-> keep,
         rows |-> [n \in 1..Len(df.rows) |-> [c \in keep |-> df.rows[n][c]]]]

Min(a, b) == IF a < b THEN a ELSE b

\* a slice one row too long: df.iloc[i:i+batch_size+1]
Batch_overlapping(df, i) == SubSeq(df.rows, i + 1, Min(i + batch_size + 1, Len(df.rows)))

\* df.iloc[i:i+batch_size], i is the 0-based offset
Batch(df, i) == SubSeq(df.rows, i + 1, Min(i + batch_size, Len(df.rows)))

\* a row as the table stores it: columns the statement does not name are NULL
Pad(r, tcols) == [c \in tcols |-> IF c \in DOMAIN r THEN r[c] ELSE NULL]

PadAll(rs, tcols) == [n \in 1..Len(rs) |-> Pad(rs[n], tcols)]

Keys(rs) == {rs[n][codigo] : n \in 1..Len(rs)}

\* ON CONFLICT (codigo) DO NOTHING
UpsertRow_do_nothing(rows, r, tcols) ==
    IF r[codigo] \in Keys(rows) THEN rows ELSE Append(rows, Pad(r, tcols))

\* INSERT ... ON CONFLICT (codigo) DO UPDATE SET col = EXCLUDED.col, for one row
UpsertRow(rows, r, tcols) ==
    IF r[codigo] \in Keys(rows)
    THEN [n \in 1..Len(rows) |->
            IF rows[n][codigo] = r[codigo]
            THEN [c \in tcols |-> IF c \in DOMAIN r /\ c # codigo THEN r[c] ELSE rows[n][c]]
            ELSE rows[n]]
    ELSE Append(rows, Pad(r, tcols))

RECURSIVE UpsertAll(_, _, _)
UpsertAll(rows, rs, tcols) ==
    IF rs = <<>> THEN rows
    ELSE UpsertAll(UpsertRow(rows, Head(rs), tcols), Tail(rs), tcols)

\* an INSERT that leaves out the columns the table does not have
InsertOk_ignores_columns(d, cols, batch) ==
    /\ d.exists
    /\ d.unique =>
          /\ Keys(batch) \cap Keys(d.rows) = {}
          /\ Cardinality(Keys(batch)) = Len(batch)

\* the multi-row INSERT of one to_sql(if_exists='append') call is accepted
InsertOk(d, cols, batch) ==
    /\ d.exists
    /\ cols \subseteq d.cols
    /\ d.unique =>
          /\ Keys(batch) \cap Keys(d.rows) = {}
          /\ Cardinality(Keys(batch)) = Len(batch)

\* cursor.executemany(sql, values) of one upsert batch is accepted
UpsertOk(d, cols, batch) ==
    \/ batch = <<>>
    \/ /\ d.exists
       /\ d.unique
       /\ cols \subseteq d.cols
       /\ cols \ {codigo} # {}

----------------------------------------------------------------------------
(* A loader object and the load() call running on it *)

Loaders == {1}

NoMetrics == [rows_loaded |-> 0, load_time_seconds |-> 0, table_created |-> FALSE]

\* PostgresLoader.__init__; the fields after metrics are the locals of load()
\* (df, given, mode, i), the open transaction of the psycopg2 connection
\* (pend), and a record of the call: the dataset as resolved (arg), the store
\* at the call (pre), the step that raised (err), the value about to be
\* returned (ret) and the value the last call returned (result), the metrics at
\* the call (m0), the steps the call has run (trace), the batches it has
\* written (batches), and whether another call ran during it (overlap)
NewLoader ==
    [pc |-> "idle", engine |-> "None", connection |-> "None", metrics |-> NoMetrics,
     df |-> NoDf, given |-> FALSE, mode |-> "replace", i |-> 0, pend |-> <<>>,
     arg |-> NoDf, pre |-> AbsentDb(FALSE), err |-> "none", ret |-> "none", result |-> "none",
     m0 |-> NoMetrics, trace |-> <<>>, batches |-> <<>>, overlap |-> FALSE]

\* the loader objects of the concurrent specification
AllLoaders == {1, 2}

\* loader l as it runs the step ev
At(l, ev) == [loader[l] EXCEPT !.trace = Append(@, ev)]

Idle(l) == loader[l].pc = "idle"

Raise(me, where) == [me EXCEPT !.pc = "except", !.err = where]

\* Handle with the TRUNCATE sent through the engine
Handle_truncate_on_engine(kind) ==
    IF kind \in {"create_schema", "upsert", "commit", "rollback"}
    THEN "connection" ELSE "engine"

\* the handle each statement is sent through: self.connection (psycopg2) at
\* load.py:93, 195-197, 220-224, 288-304, self.engine (SQLAlchemy, pandas) at
\* load.py:124-125, 180-181, 200-206, 245-252
Handle(kind) ==
    IF kind \in {"create_schema", "truncate", "upsert", "commit", "rollback"}
    THEN "connection" ELSE "engine"

Stmt(kind, cols) == [kind |-> kind, via |-> Handle(kind), cols |-> cols]

\* the connection left in autocommit mode
autocommit_on == TRUE

\* load.py:119: self.connection.autocommit = False
autocommit == FALSE

\* the exception each step raises
ExceptionOf(where) ==
    IF where = "mode" THEN "ValueError"
    ELSE IF where = "resolve" THEN "FileNotFoundError"
    ELSE IF where = "connect" THEN "OperationalError"
    ELSE "DatabaseError"

\* an except clause that names the database errors only
catches_database_errors(exc) == exc \in {"OperationalError", "DatabaseError"}

\* load.py:87: except Exception
catches(exc) == exc \in {"ValueError", "FileNotFoundError", "OperationalError", "DatabaseError"}

\* a loop that stops when less than a full batch is left
HasBatch_drops_tail(me) == me.i + batch_size <= Len(me.df.rows)

\* the body of the for loop of _load_append / _load_upsert is entered
HasBatch(me) == me.i < Len(me.df.rows)

\* Dispatch with the append branch calling _load_replace
Dispatch_append_as_replace(me) ==
    IF me.mode \in {"replace", "append"} THEN [me EXCEPT !.pc = "truncate", !.i = 0]
    ELSE IF me.mode = "upsert"
         THEN [me EXCEPT !.pc = IF Len(me.df.rows) > 0 THEN "upsert" ELSE "commit", !.i = 0]
    ELSE Raise(me, "mode")

\* Dispatch with the replace branch calling _load_append directly
Dispatch_replace_without_truncate(me) ==
    IF me.mode \in {"replace", "append"}
    THEN [me EXCEPT !.pc = IF Len(me.df.rows) > 0 THEN "append" ELSE "metrics", !.i = 0]
    ELSE IF me.mode = "upsert"
         THEN [me EXCEPT !.pc = IF Len(me.df.rows) > 0 THEN "upsert" ELSE "commit", !.i = 0]
    ELSE Raise(me, "mode")

\* load.py:66-73: the mode selects the strategy, an unknown mode raises
Dispatch(me) ==
    IF me.mode = "replace" THEN [me EXCEPT !.pc = "truncate", !.i = 0]
    ELSE IF me.mode = "append"
         THEN [me EXCEPT !.pc = IF Len(me.df.rows) > 0 THEN "append" ELSE "metrics", !.i = 0]
    ELSE IF me.mode = "upsert"
         THEN [me EXCEPT !.pc = IF Len(me.df.rows) > 0 THEN "upsert" ELSE "commit", !.i = 0]
    ELSE Raise(me, "mode")

\* _disconnect with the engine disposed only inside the connection branch
_disconnect_nested(me) ==
    [me EXCEPT !.connection = IF me.connection = "open" THEN "closed" ELSE @,
               !.pend = IF me.connection = "open" THEN <<>> ELSE @,
               !.engine = IF me.connection = "open" /\ me.engine # "None"
                          THEN "disposed" ELSE @]

\* load.py:133-141
_disconnect(me) ==
    [me EXCEPT !.connection = IF me.connection = "open" THEN "closed" ELSE @,
               !.pend = IF me.connection = "open" THEN <<>> ELSE @,
               !.engine = IF me.engine # "None" THEN "disposed" ELSE @]

\* DataTransformer.__init__
NoTransformMetrics ==
    [rows_input |-> 0, rows_output |-> 0, rows_removed |-> 0,
     null_values_found |-> 0, duplicates_found |-> 0]

\* no raw file in data/raw, no response of the API
NoFile == [cols |-> {}, rows |-> <<"none">>]

\* the main() of a pipeline script: the script, its position, what the API
\* returns (api), the newest raw CSV (raw_file), the locals df_raw, df_clean
\* and success, the DataFrame transform() works on (df) and its metrics, the
\* exit code, the stages entered (stages) and those that returned (ok)
NewMain(script, api, raw_file) ==
    [script |-> script, pc |-> "start", api |-> api, raw_file |-> raw_file,
     df_raw |-> NoDf, df_clean |-> NoDf, df |-> NoDf, metrics |-> NoTransformMetrics,
     success |-> FALSE, exit |-> -1, stages |-> <<>>, ok |-> {}]

\* no pipeline script is running
NoMain == [NewMain("none", NoFile, NoFile) EXCEPT !.pc = "done"]

----------------------------------------------------------------------------
(* load(df, mode) is called on loader l *)

Call(l, df, given, mode) ==
    LET busy == \E k \in AllLoaders \ {l} : ~Idle(k) IN
    /\ Idle(l)
    /\ loader' = [k \in AllLoaders |->
          IF k = l
          THEN [loader[l] EXCEPT
                    !.pc = "connect", !.df = df, !.given = given, !.mode = mode,
                    !.i = 0, !.arg = df, !.pre = db, !.err = "none", !.ret = "none",
                    !.result = "none", !.m0 = loader[l].metrics, !.trace = <<>>,
                    !.batches = <<>>, !.overlap = busy]
          ELSE IF Idle(k) THEN loader[k]
          ELSE [loader[k] EXCEPT !.overlap = TRUE]]
    /\ calls' = calls + 1
    /\ UNCHANGED <<db, issued, hist>>

load(l) ==
    /\ calls < 1
    /\ \E mode \in Modes :
          \/ \E df \in Datasets : Call(l, df, TRUE, mode)
          \/ Call(l, NoDf, FALSE, mode)
    /\ UNCHANGED main

\* _connect: create_engine, psycopg2.connect, then SELECT version() on the engine
_connect(l) ==
    LET me == At(l, "connect") IN
    /\ me.pc = "connect"
    /\ \/ /\ loader' = [loader EXCEPT ![l] = Raise(me, "connect")]
          /\ UNCHANGED issued
       \/ /\ loader' = [loader EXCEPT ![l] = Raise([me EXCEPT !.engine = "open"], "connect")]
          /\ UNCHANGED issued
       \/ /\ \E ok \in BOOLEAN :
               LET opened == [me EXCEPT !.engine = "open", !.connection = "open", !.pend = <<>>]
               IN  loader' = [loader EXCEPT ![l] =
                      IF ok THEN [opened EXCEPT !.pc = "resolve"] ELSE Raise(opened, "connect")]
          /\ issued' = issued \cup {Stmt("select", {})}
    /\ UNCHANGED <<db, calls, hist, main>>

\* load.py:52-58: the dataset is resolved, then stripped of internal columns
_load_latest_processed_data(l) ==
    LET me == At(l, "resolve") IN
    /\ me.pc = "resolve"
    /\ IF me.given
       THEN loader' = [loader EXCEPT ![l] =
               [me EXCEPT !.pc = "exists", !.df = _clean_dataframe(me.df)]]
       ELSE \E found \in BOOLEAN :
               loader' = [loader EXCEPT ![l] =
                  IF found
                  THEN [me EXCEPT !.pc = "exists", !.arg = LatestFile,
                                   !.df = _clean_dataframe(LatestFile)]
                  ELSE Raise(me, "resolve")]
    /\ UNCHANGED <<db, calls, issued, hist, main>>

\* load.py:61, 174-188
_table_exists(l) ==
    LET me == At(l, "exists") IN
    /\ me.pc = "exists"
    /\ \E ok \in BOOLEAN :
          loader' = [loader EXCEPT ![l] =
             IF ~ok THEN Raise(me, "exists")
             ELSE IF db.exists THEN Dispatch(me)
             ELSE [me EXCEPT !.pc = "create_schema"]]
    /\ issued' = issued \cup {Stmt("has_table", {})}
    /\ UNCHANGED <<db, calls, hist, main>>

\* load.py:195-197: CREATE SCHEMA IF NOT EXISTS and its commit
create_schema(l) ==
    LET me == At(l, "create_schema") IN
    /\ me.pc = "create_schema"
    /\ \E ok \in BOOLEAN :
          IF ok
          THEN /\ db' = [db EXCEPT !.schema = TRUE]
               /\ loader' = [loader EXCEPT ![l] = [me EXCEPT !.pc = "create_table"]]
          ELSE /\ loader' = [loader EXCEPT ![l] = Raise(me, "create")]
               /\ UNCHANGED db
    /\ issued' = issued \cup {Stmt("create_schema", {})}
    /\ UNCHANGED <<calls, hist, main>>

\* load.py:200-206 and 63: df.head(0).to_sql(con=engine, if_exists='replace')
_create_table(l) ==
    LET me == At(l, "create_table") IN
    /\ me.pc = "create_table"
    /\ \E ok \in BOOLEAN :
          IF ok /\ db.schema
          THEN /\ db' = [db EXCEPT !.exists = TRUE, !.cols = me.df.cols,
                                   !.unique = FALSE, !.rows = <<>>]
               /\ loader' = [loader EXCEPT ![l] =
                     Dispatch([me EXCEPT !.metrics.table_created = TRUE])]
          ELSE /\ loader' = [loader EXCEPT ![l] = Raise(me, "create")]
               /\ UNCHANGED db
    /\ issued' = issued \cup {Stmt("create_table", me.df.cols)}
    /\ UNCHANGED <<calls, hist, main>>

\* load.py:220-229: TRUNCATE and its commit, then _load_append is entered
_load_replace(l) ==
    LET me == At(l, "truncate") IN
    /\ me.pc = "truncate"
    /\ \E ok \in BOOLEAN :
          IF ok /\ db.exists
          THEN /\ db' = [db EXCEPT !.rows = <<>>]
               /\ loader' = [loader EXCEPT ![l] =
                     [me EXCEPT !.pc = IF HasBatch(me) THEN "append" ELSE "metrics"]]
          ELSE /\ loader' = [loader EXCEPT ![l] = Raise(me, "truncate")]
               /\ UNCHANGED db
    /\ issued' = issued \cup {Stmt("truncate", {})}
    /\ UNCHANGED <<calls, hist, main>>

\* load.py:239-252: one iteration of the loop, one to_sql call
_load_append(l) ==
    LET me == At(l, "insert")
        batch == Batch(me.df, me.i)
        next == [me EXCEPT !.i = me.i + batch_size, !.batches = Append(@, batch)]
    IN
    /\ me.pc = "append"
    /\ \E ok \in BOOLEAN :
          IF ok /\ InsertOk(db, me.df.cols, batch)
          THEN /\ db' = [db EXCEPT !.rows = db.rows \o PadAll(batch, db.cols)]
               /\ loader' = [loader EXCEPT ![l] =
                     [next EXCEPT !.pc = IF HasBatch(next) THEN "append" ELSE "metrics"]]
          ELSE /\ loader' = [loader EXCEPT ![l] = Raise(me, "append")]
               /\ UNCHANGED db
    /\ issued' = issued \cup {Stmt("insert", me.df.cols)}
    /\ UNCHANGED <<calls, hist, main>>

\* load.py:291-301: one iteration of the loop, one executemany inside the
\* transaction of the psycopg2 connection; a failing executemany leaves the
\* statements it already ran pending
_load_upsert(l) ==
    LET me == At(l, "upsert")
        batch == Batch(me.df, me.i)
        next == [me EXCEPT !.i = me.i + batch_size, !.batches = Append(@, batch)]
        Ran(to, rs) ==
            IF autocommit
            THEN /\ db' = [db EXCEPT !.rows = UpsertAll(db.rows, rs, db.cols)]
                 /\ loader' = [loader EXCEPT ![l] = to]
            ELSE /\ loader' = [loader EXCEPT ![l] = [to EXCEPT !.pend = me.pend \o rs]]
                 /\ UNCHANGED db
    IN
    /\ me.pc = "upsert"
    /\ \/ /\ UpsertOk(db, me.df.cols, batch)
          /\ Ran([next EXCEPT !.pc = IF HasBatch(next) THEN "upsert" ELSE "commit"], batch)
       \/ \E n \in 0..(Len(batch) - 1) :
             /\ n > 0 => UpsertOk(db, me.df.cols, batch)
             /\ Ran(Raise(me, "upsert"), SubSeq(batch, 1, n))
    /\ issued' = issued \cup {Stmt("upsert", me.df.cols)}
    /\ UNCHANGED <<calls, hist, main>>

\* load.py:304: connection.commit() of the upsert transaction
commit(l) ==
    LET me == At(l, "commit") IN
    /\ me.pc = "commit"
    /\ \E ok \in BOOLEAN :
          IF ok
          THEN /\ db' = [db EXCEPT !.rows = UpsertAll(db.rows, me.pend, db.cols)]
               /\ loader' = [loader EXCEPT ![l] = [me EXCEPT !.pc = "metrics", !.pend = <<>>]]
          ELSE /\ loader' = [loader EXCEPT ![l] = Raise(me, "commit")]
               /\ UNCHANGED db
    /\ issued' = issued \cup {Stmt("commit", {})}
    /\ UNCHANGED <<calls, hist, main>>

\* load.py:76-85
record_metrics(l) ==
    LET me == At(l, "metrics") IN
    /\ me.pc = "metrics"
    /\ \E t \in 1..MaxElapsed :
          loader' = [loader EXCEPT ![l] =
             [me EXCEPT !.pc = "finally", !.ret = "True",
                        !.metrics.rows_loaded = Len(me.df.rows),
                        !.metrics.load_time_seconds = t]]
    /\ UNCHANGED <<db, calls, issued, hist, main>>

\* a rollback whose error is not caught
swallows_rollback_error_not == FALSE

\* load.py:95-96: a bare except around the rollback
swallows_rollback_error == TRUE

\* a failure path that records the elapsed time
Rollback_finalizes_metrics(me, rolled) ==
    [me EXCEPT !.pc = "finally", !.ret = "False",
               !.pend = IF rolled THEN <<>> ELSE @,
               !.trace = Append(@, IF rolled THEN "rollback" ELSE "rollback_failed"),
               !.metrics.load_time_seconds = 1]

\* the handles released in the except block, before the rollback
Rollback_after_disconnect(me, rolled) ==
    [_disconnect(me) EXCEPT !.pc = "finally", !.ret = "False",
                            !.trace = me.trace \o <<"disconnect", "rollback_failed">>]

\* load.py:91-96: the rollback on self.connection and what load() is left to
\* return; a rollback that raises is passed over
Rollback(me, rolled) ==
    IF rolled
    THEN [me EXCEPT !.pc = "finally", !.ret = "False", !.pend = <<>>,
                    !.trace = Append(@, "rollback")]
    ELSE [me EXCEPT !.pc = "finally",
                    !.ret = IF swallows_rollback_error THEN "False" ELSE "raise",
                    !.trace = Append(@, "rollback_failed")]

\* load.py:87-98: rollback if self.connection, any error of it swallowed;
\* an exception the except clause does not catch leaves load() after finally
handle_exception(l) ==
    LET me == loader[l] IN
    /\ me.pc = "except"
    /\ IF ~catches(ExceptionOf(me.err))
       THEN /\ loader' = [loader EXCEPT ![l] = [me EXCEPT !.pc = "finally", !.ret = "raise"]]
            /\ UNCHANGED issued
       ELSE /\ IF me.connection = "open"
               THEN \E rolled \in BOOLEAN : loader' = [loader EXCEPT ![l] = Rollback(me, rolled)]
               ELSE IF me.connection = "closed"
               THEN loader' = [loader EXCEPT ![l] = Rollback(me, FALSE)]
               ELSE loader' = [loader EXCEPT ![l] =
                       [me EXCEPT !.pc = "finally", !.ret = "False"]]
            /\ issued' = IF me.connection # "None"
                         THEN issued \cup {Stmt("rollback", {})} ELSE issued
    /\ UNCHANGED <<db, calls, hist, main>>

Returned(me, post) ==
    [mode |-> me.mode, arg |-> me.arg, given |-> me.given, df |-> me.df, i |-> me.i,
     err |-> me.err, ret |-> me.ret, pre |-> me.pre, post |-> post,
     engine |-> me.engine, connection |-> me.connection, metrics |-> me.metrics,
     m0 |-> me.m0, trace |-> me.trace, batches |-> me.batches, overlap |-> me.overlap]

\* load.py:100-102: finally _disconnect(), then load() returns
finally(l) ==
    LET me == At(l, "disconnect")
        done == _disconnect(me)
    IN
    /\ me.pc = "finally"
    /\ loader' = [loader EXCEPT ![l] =
          [done EXCEPT !.pc = "idle", !.result = me.ret]]
    /\ hist' = Append(hist, Returned(done, db))
    /\ UNCHANGED <<db, calls, issued, main>>

----------------------------------------------------------------------------
(* One load() call on one loader, from every destination state *)

Init ==
    /\ db \in InitDbs
    /\ loader = [l \in AllLoaders |-> NewLoader]
    /\ calls = 0
    /\ issued = {}
    /\ hist = <<>>
    /\ main = NoMain

Next ==
    \/ \E l \in Loaders : load(l)
    \/ \E l \in Loaders : _connect(l)
    \/ \E l \in Loaders : _load_latest_processed_data(l)
    \/ \E l \in Loaders : _table_exists(l)
    \/ \E l \in Loaders : create_schema(l)
    \/ \E l \in Loaders : _create_table(l)
    \/ \E l \in Loaders : _load_replace(l)
    \/ \E l \in Loaders : _load_append(l)
    \/ \E l \in Loaders : _load_upsert(l)
    \/ \E l \in Loaders : commit(l)
    \/ \E l \in Loaders : record_metrics(l)
    \/ \E l \in Loaders : handle_exception(l)
    \/ \E l \in Loaders : finally(l)

Spec == Init /\ [][Next]_vars

----------------------------------------------------------------------------
(* load() called twice, one call after the other, on the same loader       *)
(* object or, as load_to_postgres does, on a new one                       *)

load_next(l) ==
    /\ calls < 2
    /\ \E mode \in Modes :
          \/ \E df \in SeqDatasets : Call(l, df, TRUE, mode)
          \/ Call(l, NoDf, FALSE, mode)
    /\ UNCHANGED main

load_to_postgres(l) ==
    /\ Idle(l)
    /\ calls = 1
    /\ loader[l] # NewLoader
    /\ loader' = [loader EXCEPT ![l] = NewLoader]
    /\ UNCHANGED <<db, calls, issued, hist, main>>

InitSeq ==
    /\ db \in SeqInitDbs
    /\ loader = [l \in AllLoaders |-> NewLoader]
    /\ calls = 0
    /\ issued = {}
    /\ hist = <<>>
    /\ main = NoMain

NextSeq ==
    \/ \E l \in Loaders : load_next(l)
    \/ \E l \in Loaders : load_to_postgres(l)
    \/ \E l \in Loaders : _connect(l)
    \/ \E l \in Loaders : _load_latest_processed_data(l)
    \/ \E l \in Loaders : _table_exists(l)
    \/ \E l \in Loaders : create_schema(l)
    \/ \E l \in Loaders : _create_table(l)
    \/ \E l \in Loaders : _load_replace(l)
    \/ \E l \in Loaders : _load_append(l)
    \/ \E l \in Loaders : _load_upsert(l)
    \/ \E l \in Loaders : commit(l)
    \/ \E l \in Loaders : record_metrics(l)
    \/ \E l \in Loaders : handle_exception(l)
    \/ \E l \in Loaders : finally(l)

SpecSeq == InitSeq /\ [][NextSeq]_vars

----------------------------------------------------------------------------
(* Two load() calls running concurrently against the same table, each on   *)
(* its own loader object with its own engine and connection, as two        *)
(* processes calling load_to_postgres do.  The steps of the two calls      *)
(* interleave freely: the loader takes no lock.                            *)

ConcModes == {"replace", "append"}

\* n rows of description d over the base columns
ConcData(d, n) ==
    [cols |-> Base, rows |-> [k \in 1..n |-> MkRow(((k - 1) % MaxCode) + 1, d, Base)]]

ConcDatasets == {ConcData("a", n) : n \in {1, MaxRowsConc}} \cup {ConcData("b", 1)}

ConcInitDbs == {AbsentDb(FALSE), PresentDb(Base, FALSE, 1)}

load_conc(l) ==
    /\ calls < 2
    /\ loader[l] = NewLoader
    /\ \E mode \in ConcModes : \E df \in ConcDatasets : Call(l, df, TRUE, mode)
    /\ UNCHANGED main

InitConc ==
    /\ db \in ConcInitDbs
    /\ loader = [l \in AllLoaders |-> NewLoader]
    /\ calls = 0
    /\ issued = {}
    /\ hist = <<>>
    /\ main = NoMain

NextConc ==
    \/ \E l \in AllLoaders : load_conc(l)
    \/ \E l \in AllLoaders : _connect(l)
    \/ \E l \in AllLoaders : _load_latest_processed_data(l)
    \/ \E l \in AllLoaders : _table_exists(l)
    \/ \E l \in AllLoaders : create_schema(l)
    \/ \E l \in AllLoaders : _create_table(l)
    \/ \E l \in AllLoaders : _load_replace(l)
    \/ \E l \in AllLoaders : _load_append(l)
    \/ \E l \in AllLoaders : record_metrics(l)
    \/ \E l \in AllLoaders : handle_exception(l)
    \/ \E l \in AllLoaders : finally(l)

SpecConc == InitConc /\ [][NextConc]_vars

----------------------------------------------------------------------------
(* The pipeline scripts (src/pipelines/run_*.py) with the extract stage    *)
(* (src/src/extract.py) and the transform stage (src/src/transform.py).    *)
(* Cell values are character sequences, so that strip() is computed; a     *)
(* missing value is NaN.                                                   *)

data_extracao == <<"d", "a", "t", "a", "_", "e", "x", "t", "r", "a", "c", "a", "o">>
versao_pipeline == <<"v", "e", "r", "s", "a", "o", "_", "p", "i", "p", "e", "l", "i", "n", "e">>

NaN == <<"NaN">>

RawCodigos == {<<"1">>, <<"1", " ">>, <<"2">>, NaN}

RawDescricoes == {<<"a">>, <<" ", "a">>, NaN}

RawRows(cs) ==
    {[c \in cs |-> IF c = codigo THEN k ELSE d] : k \in RawCodigos, d \in RawDescricoes}

\* what the API returns and what pd.read_csv reads from the newest raw file
RawDatasets ==
    {[cols |-> Base, rows |-> rs] : rs \in SeqsUpTo(RawRows(Base), MaxRaw)}
    \cup {[cols |-> {codigo}, rows |-> rs] : rs \in SeqsUpTo(RawRows({codigo}), 1)}

\* the keyword arguments the builtin open() accepts
OpenKeywords ==
    {"file", "mode", "buffering", "encoding", "errors", "newline", "closefd", "opener"}

\* extract.py:174: open(metadata_file, 'w', enconding='utf-8')
MetadataOpenKeywords == {"enconding"}

\* open() raises TypeError for a keyword it does not know
open_raises(keywords) == ~(keywords \subseteq OpenKeywords)

\* df.drop_duplicates(keep='first')
RECURSIVE drop_duplicates(_)
drop_duplicates(rs) ==
    IF rs = <<>> THEN <<>>
    ELSE LET init == SubSeq(rs, 1, Len(rs) - 1)
             last == rs[Len(rs)]
         IN  IF \E m \in 1..Len(init) : init[m] = last
             THEN drop_duplicates(init)
             ELSE Append(drop_duplicates(init), last)

\* df.isnull().sum().sum()
RECURSIVE null_count(_)
null_count(rs) ==
    IF rs = <<>> THEN 0
    ELSE Cardinality({c \in DOMAIN Head(rs) : Head(rs)[c] = NaN}) + null_count(Tail(rs))

\* df.dropna(subset=critical_columns)
dropna(rs, subset) == SelectSeq(rs, LAMBDA r : \A c \in subset : r[c] # NaN)

RECURSIVE lstrip(_)
lstrip(x) == IF x # <<>> /\ Head(x) = " " THEN lstrip(Tail(x)) ELSE x

RECURSIVE rstrip(_)
rstrip(x) ==
    IF x # <<>> /\ x[Len(x)] = " " THEN rstrip(SubSeq(x, 1, Len(x) - 1)) ELSE x

\* str.strip()
strip(x) == rstrip(lstrip(x))

\* astype(str) of one value
astype_str(v) == IF v = NaN THEN <<"n", "a", "n">> ELSE v

critical_columns == {codigo, descricao}

Scripts == {"run_full_pipeline", "run_extract", "run_transform", "run_load"}

\* a stage of main() raised: the except block of main() is entered
MainRaise(m) == [m EXCEPT !.pc = "except"]

\* the stage main() runs first
FirstStage(script) ==
    IF script \in {"run_full_pipeline", "run_extract"} THEN "extract"
    ELSE IF script = "run_transform" THEN "transform"
    ELSE "load"

\* the stage main() runs after the stage done, or its return 0
NextStage(script, done) ==
    IF script = "run_full_pipeline" /\ done = "extract" THEN "transform"
    ELSE IF script = "run_full_pipeline" /\ done = "transform" THEN "load"
    ELSE "return0"

\* the stage done has returned to main()
Completed(m, done) ==
    LET to == NextStage(m.script, done) IN
    [m EXCEPT !.pc = to, !.ok = @ \cup {done},
              !.stages = IF to = "return0" THEN @ ELSE Append(@, to)]

\* main() treating every result of load_to_postgres as a success
AfterLoad_ignores_result(success) == "return0"

\* run_full_pipeline.py:64-65, run_load.py:27-37: a False result is raised
AfterLoad(success) == IF success THEN "return0" ELSE "except"

\* main() enters its try block
main_start ==
    /\ main.pc = "start"
    /\ main' = [main EXCEPT !.pc = FirstStage(main.script),
                            !.stages = <<FirstStage(main.script)>>]
    /\ UNCHANGED <<db, loader, calls, issued, hist>>

\* extract.py:56-91, 93-132, 134-177: the request, then the raw CSV and JSON
\* are written, then the open() of the metadata file
extract_data ==
    /\ main.pc = "extract"
    /\ \/ main' = MainRaise(main)
       \/ \E saved \in BOOLEAN :
             LET df == main.api
                 written == [main EXCEPT !.raw_file = df]
             IN  main' = IF ~saved THEN MainRaise(main)
                         ELSE IF open_raises(MetadataOpenKeywords) THEN MainRaise(written)
                         ELSE Completed([written EXCEPT !.df_raw = df], "extract")
    /\ UNCHANGED <<db, loader, calls, issued, hist>>

\* transform.py:41-45: the DataFrame given or the newest raw file
transform ==
    /\ main.pc = "transform"
    /\ LET given == main.script = "run_full_pipeline"
           df == IF given THEN main.df_raw ELSE main.raw_file
       IN  main' = IF df = NoFile THEN MainRaise(main)
                   ELSE [main EXCEPT !.pc = "_remove_duplicates", !.df = df,
                                     !.metrics = [NoTransformMetrics EXCEPT
                                                     !.rows_input = Len(df.rows)]]
    /\ UNCHANGED <<db, loader, calls, issued, hist>>

\* transform.py:95-114
_remove_duplicates ==
    /\ main.pc = "_remove_duplicates"
    /\ LET kept == drop_duplicates(main.df.rows) IN
       main' = [main EXCEPT !.pc = "_handle_nulls", !.df.rows = kept,
                            !.metrics.duplicates_found = Len(main.df.rows) - Len(kept)]
    /\ UNCHANGED <<db, loader, calls, issued, hist>>

\* transform.py:116-148: dropna raises KeyError for a column that is missing
_handle_nulls ==
    /\ main.pc = "_handle_nulls"
    /\ LET nulls == null_count(main.df.rows)
           counted == [main EXCEPT !.metrics.null_values_found = nulls]
       IN  main' = IF nulls = 0 THEN [counted EXCEPT !.pc = "_standardize_types"]
                   ELSE IF ~(critical_columns \subseteq main.df.cols) THEN MainRaise(counted)
                   ELSE [counted EXCEPT !.pc = "_standardize_types",
                                        !.df.rows = dropna(main.df.rows, critical_columns)]
    /\ UNCHANGED <<db, loader, calls, issued, hist>>

\* transform.py:150-170: astype(str) of codigo and descricao, then strip()
\* of every string
_standardize_types ==
    /\ main.pc = "_standardize_types"
    /\ LET typed(r) == [c \in DOMAIN r |->
                          IF c \in critical_columns THEN astype_str(r[c]) ELSE r[c]]
           stripped(r) == [c \in DOMAIN r |-> IF r[c] = NaN THEN NaN ELSE strip(r[c])]
       IN  main' = [main EXCEPT !.pc = "_add_metadata",
                                !.df.rows = [n \in 1..Len(main.df.rows) |->
                                                stripped(typed(main.df.rows[n]))]]
    /\ UNCHANGED <<db, loader, calls, issued, hist>>

\* transform.py:172-183
_add_metadata ==
    /\ main.pc = "_add_metadata"
    /\ LET cs == main.df.cols \cup {data_extracao, fonte, versao_pipeline}
           with(r) == [c \in cs |-> IF c = data_extracao THEN <<"now">>
                                    ELSE IF c = fonte THEN <<"Portal">>
                                    ELSE IF c = versao_pipeline THEN <<"1.0.0">>
                                    ELSE r[c]]
       IN  main' = [main EXCEPT !.pc = "_validate_quality", !.df.cols = cs,
                                !.df.rows = [n \in 1..Len(main.df.rows) |->
                                                with(main.df.rows[n])]]
    /\ UNCHANGED <<db, loader, calls, issued, hist>>

\* transform.py:185-209 and 55-58: the three asserts, then the final metrics
_validate_quality ==
    /\ main.pc = "_validate_quality"
    /\ main' = IF Len(main.df.rows) > 0 /\ critical_columns \subseteq main.df.cols
               THEN [main EXCEPT !.pc = "_save_processed_data",
                        !.metrics.rows_output = Len(main.df.rows),
                        !.metrics.rows_removed = main.metrics.rows_input - Len(main.df.rows)]
               ELSE MainRaise(main)
    /\ UNCHANGED <<db, loader, calls, issued, hist>>

\* transform.py:61-67, 211-221: the processed CSV is written, transform() returns
_save_processed_data ==
    /\ main.pc = "_save_processed_data"
    /\ \E saved \in BOOLEAN :
          main' = IF saved THEN Completed([main EXCEPT !.df_clean = main.df], "transform")
                  ELSE MainRaise(main)
    /\ UNCHANGED <<db, loader, calls, issued, hist>>

\* run_full_pipeline.py:62, run_load.py:25: load_to_postgres on a new loader
main_load ==
    /\ main.pc = "load"
    /\ calls < 1
    /\ IF main.script = "run_full_pipeline"
       THEN Call(1, main.df_clean, TRUE, "replace")
       ELSE Call(1, NoDf, FALSE, "replace")
    /\ main' = [main EXCEPT !.pc = "loading"]

\* load_to_postgres has returned
main_loaded ==
    /\ main.pc = "loading"
    /\ Idle(1)
    /\ LET success == loader[1].result = "True"
           back == [main EXCEPT !.success = success]
       IN  main' = IF AfterLoad(success) = "return0" THEN Completed(back, "load")
                   ELSE MainRaise(back)
    /\ UNCHANGED <<db, loader, calls, issued, hist>>

\* return 0 at the end of the try block
main_return ==
    /\ main.pc = "return0"
    /\ main' = [main EXCEPT !.pc = "done", !.exit = 0]
    /\ UNCHANGED <<db, loader, calls, issued, hist>>

\* except Exception: return 1
main_except ==
    /\ main.pc = "except"
    /\ main' = [main EXCEPT !.pc = "done", !.exit = 1]
    /\ UNCHANGED <<db, loader, calls, issued, hist>>

InitPipe ==
    /\ db \in SeqInitDbs
    /\ loader = [l \in AllLoaders |-> NewLoader]
    /\ calls = 0
    /\ issued = {}
    /\ hist = <<>>
    /\ main \in {NewMain(script, api, NoFile) :
                    script \in {"run_full_pipeline", "run_extract"}, api \in RawDatasets}
               \cup {NewMain("run_transform", NoFile, file) : file \in RawDatasets \cup {NoFile}}
               \cup {NewMain("run_load", NoFile, NoFile)}

NextPipe ==
    \/ main_start
    \/ extract_data
    \/ transform
    \/ _remove_duplicates
    \/ _handle_nulls
    \/ _standardize_types
    \/ _add_metadata
    \/ _validate_quality
    \/ _save_processed_data
    \/ main_load
    \/ main_loaded
    \/ main_return
    \/ main_except
    \/ \E l \in Loaders : _connect(l)
    \/ \E l \in Loaders : _load_latest_processed_data(l)
    \/ \E l \in Loaders : _table_exists(l)
    \/ \E l \in Loaders : create_schema(l)
    \/ \E l \in Loaders : _create_table(l)
    \/ \E l \in Loaders : _load_replace(l)
    \/ \E l \in Loaders : _load_append(l)
    \/ \E l \in Loaders : record_metrics(l)
    \/ \E l \in Loaders : handle_exception(l)
    \/ \E l \in Loaders : finally(l)

SpecPipe == InitPipe /\ [][NextPipe]_vars

----------------------------------------------------------------------------
(* Properties.  hist[n] is the n-th load() call that has returned.         *)

Calls == {hist[n] : n \in DOMAIN hist}

\* the dataset without the columns whose name starts with '_'
WithoutInternal(D) ==
    LET cs == {c \in D.cols : c[1] # "_"}
    IN  [n \in 1..Len(D.rows) |-> [c \in cs |-> D.rows[n][c]]]

\* C1: when load() returns, the psycopg2 connection is closed and the engine
\* is disposed, whichever of them the call opened and wherever it failed.
C1_HandlesReleased ==
    \A h \in Calls : h.connection \in {"None", "closed"} /\ h.engine \in {"None", "disposed"}

\* a call whose _connect failed after the engine alone was opened has returned
C1_Witness ==
    \E h \in Calls : h.err = "connect" /\ h.engine = "disposed" /\ h.connection = "None"

\* C2: no error of any step leaves load(); a call in which a step raised
\* returns False, and a call returns True only if no step raised.
C2_NoErrorEscapes ==
    \A h \in Calls : h.ret \in {"True", "False"} /\ (h.ret = "True" <=> h.err = "none")

\* calls that failed at the mode dispatch and at the commit have returned False
C2_Witness ==
    \E h \in Calls : h.err \in {"mode", "commit"} /\ h.ret = "False"

\* C3: after load(D, 'replace') returned True the table holds exactly the
\* rows of D without the internal columns, whatever it held before.
C3_ReplaceExact ==
    \A h \in Calls :
        h.mode = "replace" /\ h.ret = "True" =>
            h.post.rows = PadAll(WithoutInternal(h.arg), h.post.cols)

\* a replace of several batches, with an internal column, over prior rows
C3_Witness ==
    \E h \in Calls :
        /\ h.mode = "replace" /\ h.ret = "True"
        /\ Len(h.pre.rows) > 0
        /\ Len(h.arg.rows) > batch_size
        /\ _raw \in h.arg.cols

\* C5: after load(D, 'upsert') returned True on a table with a uniqueness
\* constraint on codigo, every key of D has exactly one row, whose non-key
\* columns are those of the last row of D with that key, and the rows of
\* the other keys are unchanged.
C5_UpsertLastWriteWins ==
    \A h \in Calls :
        h.mode = "upsert" /\ h.ret = "True" /\ h.pre.exists /\ h.pre.unique =>
            LET D == WithoutInternal(h.arg)
                Last(k) == CHOOSE n \in 1..Len(D) :
                              /\ D[n][codigo] = k
                              /\ \A m \in (n + 1)..Len(D) : D[m][codigo] # k
                Other(r) == r[codigo] \notin Keys(D)
            IN  /\ \A k \in Keys(D) :
                      /\ Cardinality({j \in 1..Len(h.post.rows) : h.post.rows[j][codigo] = k}) = 1
                      /\ \A j \in 1..Len(h.post.rows) :
                            h.post.rows[j][codigo] = k =>
                               \A c \in DOMAIN D[Last(k)] : h.post.rows[j][c] = D[Last(k)][c]
                /\ SelectSeq(h.post.rows, Other) = SelectSeq(h.pre.rows, Other)

\* an upsert of several batches in which a key already in the table occurs
\* twice with different values, the second time in a later batch, and which
\* leaves another key of the table alone
C5_Witness ==
    \E h \in Calls :
        /\ h.mode = "upsert" /\ h.ret = "True" /\ h.pre.unique
        /\ \E m \in 1..Len(h.arg.rows) : \E n \in (batch_size + 1)..Len(h.arg.rows) :
              /\ m < n
              /\ h.arg.rows[m][codigo] = h.arg.rows[n][codigo]
              /\ h.arg.rows[m][descricao] # h.arg.rows[n][descricao]
              /\ h.arg.rows[m][codigo] \in Keys(h.pre.rows)
        /\ Keys(h.pre.rows) \ Keys(h.arg.rows) # {}

\* C6: an upsert in which any step fails returns False and leaves the rows
\* of the table exactly as they were before the call.
C6_UpsertAllOrNothing ==
    \A h \in Calls :
        h.mode = "upsert" /\ h.err # "none" =>
            h.ret = "False" /\ h.post.rows = h.pre.rows

\* an upsert failed in its second batch, after the first batch had run
C6_Witness ==
    \E h \in Calls :
        /\ h.mode = "upsert" /\ h.err = "upsert" /\ h.i >= batch_size
        /\ h.pre.unique /\ Len(h.pre.rows) > 0

\* C7: load() with an unknown mode returns False and has changed nothing in
\* the destination store: no namespace, no table, no truncate, no row.
C7_InvalidModeNoMutation ==
    \A h \in Calls :
        h.mode \notin {"replace", "append", "upsert"} =>
            h.ret = "False" /\ h.post = h.pre

C9_AppendPartial ==
    \A h \in Calls :
        h.mode = "append" /\ h.err = "append" =>
            LET k == (h.i \div batch_size) + 1
                D == WithoutInternal(h.arg)
            IN  /\ h.ret = "False"
                /\ h.i = (k - 1) * batch_size
                /\ h.i < Len(D)
                /\ h.post.rows =
                      h.pre.rows \o PadAll(SubSeq(D, 1, (k - 1) * batch_size), h.post.cols)

\* an append over prior rows failed in its second batch
C9_Witness ==
    \E h \in Calls :
        /\ h.mode = "append" /\ h.err = "append" /\ h.i >= batch_size
        /\ Len(h.pre.rows) > 0

\* C10: no column whose name starts with '_' reaches table creation or a
\* write: neither a statement, nor the table, nor a row carries one.
C10_NoInternalColumn ==
    /\ \A s \in issued : \A c \in s.cols : c[1] # "_"
    /\ \A c \in db.cols : c[1] # "_"
    /\ \A n \in 1..Len(db.rows) : \A c \in DOMAIN db.rows[n] : c[1] # "_"
    /\ \A l \in Loaders : \A n \in 1..Len(loader[l].pend) :
          \A c \in DOMAIN loader[l].pend[n] : c[1] # "_"

\* a dataset with an internal column was loaded into a table the call created
C10_Witness ==
    \E h \in Calls :
        /\ _raw \in h.arg.cols /\ h.ret = "True" /\ ~h.pre.exists
        /\ Len(h.post.rows) > 0
        /\ \E s \in issued : s.kind = "create_table"

\* C4: load(D1, 'append') followed by load(D2, 'append') on datasets of the
\* same columns, both returning True, leaves the table holding the rows it
\* held before, then the rows of D1, then the rows of D2, duplicates kept.
C4_AppendTwice ==
    \A n \in 1..(Len(hist) - 1) :
        LET a == hist[n]
            b == hist[n + 1]
        IN  /\ a.mode = "append" /\ a.ret = "True"
            /\ b.mode = "append" /\ b.ret = "True"
            /\ a.arg.cols = b.arg.cols
            => b.post.rows =
                  a.pre.rows \o PadAll(WithoutInternal(a.arg), b.post.cols)
                             \o PadAll(WithoutInternal(b.arg), b.post.cols)

\* two appends over prior rows, the second dataset repeating a row of the first
C4_Witness ==
    \E n \in 1..(Len(hist) - 1) :
        /\ hist[n].mode = "append" /\ hist[n].ret = "True"
        /\ hist[n + 1].mode = "append" /\ hist[n + 1].ret = "True"
        /\ Len(hist[n].pre.rows) > 0
        /\ hist[n].arg.cols = hist[n + 1].arg.cols
        /\ \E i \in 1..Len(hist[n].arg.rows) : \E j \in 1..Len(hist[n + 1].arg.rows) :
              hist[n].arg.rows[i] = hist[n + 1].arg.rows[j]

RECURSIVE Flatten(_)
Flatten(bs) == IF bs = <<>> THEN <<>> ELSE Head(bs) \o Flatten(Tail(bs))

\* C11: a call that completes in replace, append or upsert mode has written
\* the dataset of n rows as ceil(n / batch_size) batches of 1..batch_size
\* rows whose concatenation in write order is the dataset; the batches of a
\* call that failed are a prefix of it.
C11_BatchesPartition ==
    \A h \in Calls :
        LET D == WithoutInternal(h.arg)
            W == Flatten(h.batches)
        IN  /\ \A b \in 1..Len(h.batches) :
                  Len(h.batches[b]) >= 1 /\ Len(h.batches[b]) <= batch_size
            /\ Len(W) <= Len(D) /\ W = SubSeq(D, 1, Len(W))
            /\ h.err = "none" =>
                  /\ W = D
                  /\ Len(h.batches) = (Len(D) + batch_size - 1) \div batch_size

\* an upsert of batch_size + 1 rows completed in two batches
C11_Witness ==
    \E h \in Calls :
        /\ h.mode = "upsert" /\ h.err = "none"
        /\ Len(h.arg.rows) = batch_size + 1
        /\ Len(h.batches) = 2 /\ Len(h.batches[2]) = 1

\* C12: load(D, 'replace') run twice in succession, both returning True,
\* leaves the destination as the first run left it.
C12_ReplaceIdempotent ==
    \A n \in 1..(Len(hist) - 1) :
        LET a == hist[n]
            b == hist[n + 1]
        IN  /\ a.mode = "replace" /\ a.ret = "True"
            /\ b.mode = "replace" /\ b.ret = "True"
            /\ a.arg = b.arg
            => b.post = a.post

\* the same non-empty dataset replaced twice over prior rows
C12_Witness ==
    \E n \in 1..(Len(hist) - 1) :
        /\ hist[n].mode = "replace" /\ hist[n].ret = "True"
        /\ hist[n + 1].mode = "replace" /\ hist[n + 1].ret = "True"
        /\ hist[n].arg = hist[n + 1].arg
        /\ Len(hist[n].arg.rows) > 0 /\ Len(hist[n].pre.rows) > 0

\* C13: in a failing run that opened the psycopg2 connection, the rollback
\* has been attempted on the still open connection when finally is reached;
\* whether it succeeded or raised, _disconnect runs next and load() returns
\* False.
C13_RollbackThenDisconnect ==
    /\ \A l \in Loaders :
          LET me == loader[l] IN
          me.pc = "finally" /\ me.err # "none" /\ me.connection # "None" =>
              /\ me.connection = "open"
              /\ me.trace[Len(me.trace)] \in {"rollback", "rollback_failed"}
              /\ me.ret = "False"
    /\ \A h \in Calls :
          h.err # "none" /\ h.connection # "None" =>
              /\ h.ret = "False"
              /\ h.connection = "closed" /\ h.engine = "disposed"
              /\ Len(h.trace) >= 2
              /\ h.trace[Len(h.trace)] = "disconnect"
              /\ h.trace[Len(h.trace) - 1] \in {"rollback", "rollback_failed"}

\* an upsert failed, its rollback failed as well, and load() returned False
C13_Witness ==
    \E h \in Calls :
        /\ h.err = "upsert" /\ h.ret = "False"
        /\ h.trace[Len(h.trace) - 1] = "rollback_failed"

\* rows of the call that are in the table although the call failed
Committed(h) ==
    IF h.mode \in {"replace", "append"} THEN Len(Flatten(h.batches)) ELSE 0

\* C14: after every load() call, table_created is True exactly if that call
\* created the table, and rows_loaded is the size of the dataset of that call
\* or, when it failed, no more than what that call committed.
C14_MetricsFresh ==
    \A h \in Calls :
        /\ h.metrics.table_created <=> (~h.pre.exists /\ h.post.exists)
        /\ h.ret = "True" => h.metrics.rows_loaded = Len(h.arg.rows)
        /\ h.ret # "True" => h.metrics.rows_loaded <= Committed(h)

\* C15 as stated: when load() returns False the elapsed time has been
\* recorded and rows_loaded is the number of rows the run committed.
C15_MetricsFinalizedOnFailure ==
    \A h \in Calls :
        h.ret = "False" =>
            /\ h.metrics.load_time_seconds > 0
            /\ h.metrics.rows_loaded = Committed(h)

\* C15 amended: rows_loaded and load_time_seconds are written at the end of
\* a successful run only; when load() returns False they are what they were
\* when load() was called, whatever the run committed.
C15_MetricsOnSuccessOnly ==
    \A h \in Calls :
        /\ h.ret = "False" =>
              /\ h.metrics.rows_loaded = h.m0.rows_loaded
              /\ h.metrics.load_time_seconds = h.m0.load_time_seconds
        /\ h.ret = "True" =>
              /\ h.metrics.rows_loaded = Len(h.arg.rows)
              /\ h.metrics.load_time_seconds > 0

\* an append failed in its second batch; the first batch is in the table and
\* rows_loaded is still 0
C15_Witness ==
    \E h \in Calls :
        /\ h.mode = "append" /\ h.err = "append" /\ h.ret = "False"
        /\ Committed(h) > 0
        /\ h.metrics.rows_loaded = 0 /\ h.metrics.load_time_seconds = 0

\* C17: in every state of the handles, _disconnect leaves the connection
\* closed (or never opened) and the engine disposed (or never created), and
\* a second _disconnect changes nothing.
C17_DisconnectIdempotent ==
    \A l \in Loaders :
        LET once == _disconnect(loader[l])
            twice == _disconnect(once)
        IN  /\ once.connection \in {"None", "closed"}
            /\ once.engine \in {"None", "disposed"}
            /\ twice = once

\* handle states _disconnect meets: both open; only a new engine open beside
\* the closed connection of an earlier call
C17_Witness ==
    \E l \in Loaders :
        /\ loader[l].engine = "open" /\ loader[l].connection = "closed"
        /\ loader[l].pc = "finally"

\* the place of a step in the order of load()
Rank(ev) ==
    CASE ev = "connect" -> 1
      [] ev = "resolve" -> 2
      [] ev = "exists" -> 3
      [] ev = "create_schema" -> 4
      [] ev = "create_table" -> 5
      [] ev = "truncate" -> 6
      [] ev \in {"insert", "upsert"} -> 7
      [] ev = "commit" -> 8
      [] ev = "metrics" -> 9
      [] ev \in {"rollback", "rollback_failed"} -> 10
      [] ev = "disconnect" -> 11

\* the steps in which an error recorded as err can have been raised
StepsOf(err) ==
    CASE err = "connect" -> {"connect"}
      [] err = "resolve" -> {"resolve"}
      [] err = "exists" -> {"exists"}
      [] err = "create" -> {"create_schema", "create_table"}
      [] err = "mode" -> {"exists", "create_table"}
      [] err = "truncate" -> {"truncate"}
      [] err = "append" -> {"insert"}
      [] err = "upsert" -> {"upsert"}
      [] err = "commit" -> {"commit"}

Ordered(T) ==
    /\ T # <<>> => T[1] = "connect"
    /\ \A k \in 1..(Len(T) - 1) :
          \/ Rank(T[k]) < Rank(T[k + 1])
          \/ T[k] = T[k + 1] /\ T[k] \in {"insert", "upsert"}

\* C16 as stated, for the metrics: a run in which a step failed has recorded
\* no metric.
C16_MetricsAfterWrites ==
    \A h \in Calls : h.err # "none" => h.metrics = h.m0

\* C16 amended: the steps of every run of load() follow the order connect,
\* dataset, existence check, creation, writes, metrics, disconnect; the
\* destination is read or written only while both handles are open; the
\* metrics step, which sets rows_loaded and load_time_seconds, follows the
\* last write of a run without error, while table_created is set by the
\* creation of the table, before the writes; disconnect is the last step;
\* after the step that failed only rollback and disconnect run.
C16_LinearOrder ==
    /\ \A l \in Loaders :
          LET me == loader[l] IN
          /\ Ordered(me.trace)
          /\ me.pc \in {"exists", "create_schema", "create_table", "truncate",
                        "append", "upsert", "commit", "metrics"} =>
                me.engine = "open" /\ me.connection = "open"
          /\ me.pc # "idle" => \A k \in 1..Len(me.trace) : me.trace[k] # "disconnect"
    /\ \A h \in Calls :
          LET T == h.trace
              body == SelectSeq(T, LAMBDA ev : Rank(ev) < 10)
          IN  /\ Ordered(T)
              /\ T[Len(T)] = "disconnect"
              /\ (\E k \in 1..Len(T) : T[k] = "metrics") <=> h.err = "none"
              /\ h.err = "none" => Flatten(h.batches) = h.df.rows
              /\ h.err # "none" =>
                    /\ body # <<>> /\ body[Len(body)] \in StepsOf(h.err)
                    /\ h.metrics.rows_loaded = h.m0.rows_loaded
                    /\ h.metrics.load_time_seconds = h.m0.load_time_seconds
              /\ h.metrics.table_created # h.m0.table_created =>
                    \E k \in 1..Len(T) : T[k] = "create_table"

\* a replace created the table and failed in its second batch: the steps up
\* to the failure ran in order, then rollback and disconnect, and
\* table_created is set although no metrics step ran
C16_Witness ==
    \E h \in Calls :
        /\ h.trace = <<"connect", "resolve", "exists", "create_schema", "create_table",
                       "truncate", "insert", "insert", "rollback", "disconnect">>
        /\ h.metrics.table_created /\ ~h.m0.table_created
        /\ h.metrics.rows_loaded = 0

\* the columns of the dataset of a call that reach the writes
Stripped(h) == {c \in h.arg.cols : c[1] # "_"}

\* C18 as stated: an append or upsert of a dataset with a column the existing
\* table does not have returns False and writes no row.
C18_UnknownColumnFails ==
    \A h \in Calls :
        /\ h.mode \in {"append", "upsert"}
        /\ h.pre.exists
        /\ ~(Stripped(h) \subseteq h.pre.cols)
        => h.ret = "False" /\ h.post.rows = h.pre.rows

\* C18 amended: such a call writes no row and leaves the columns of the table
\* as they were, and it returns False if the dataset has at least one row;
\* with no row no statement is sent and the mismatch goes unnoticed.
C18_UnknownColumnNoWrite ==
    \A h \in Calls :
        /\ h.mode \in {"append", "upsert"}
        /\ h.pre.exists
        /\ ~(Stripped(h) \subseteq h.pre.cols)
        => /\ h.post.rows = h.pre.rows
           /\ h.post.cols = h.pre.cols
           /\ Len(h.arg.rows) > 0 => h.ret = "False"
           /\ h.err = "none" => Len(h.arg.rows) = 0 /\ h.ret = "True"

\* an append of rows with the column fonte reached its first INSERT on a
\* table without that column and failed there
C18_Witness ==
    \E h \in Calls :
        /\ h.mode = "append" /\ h.pre.exists /\ Len(h.pre.rows) > 0
        /\ fonte \in Stripped(h) /\ fonte \notin h.pre.cols
        /\ Len(h.arg.rows) > 0
        /\ h.err = "append" /\ h.ret = "False" /\ h.i = 0

\* C19: when an INSERT of a replace fails, after the TRUNCATE was committed,
\* load() returns False and the table holds none of its previous rows, only
\* the rows of the batches written before the failing one; the rollback
\* brings nothing back.
C19_ReplaceNotAtomic ==
    \A h \in Calls :
        h.mode = "replace" /\ h.err = "append" =>
            /\ h.ret = "False"
            /\ h.i < Len(h.arg.rows)
            /\ h.post.rows = PadAll(SubSeq(WithoutInternal(h.arg), 1, h.i), h.post.cols)
            /\ \E k \in 1..Len(h.trace) : h.trace[k] = "truncate"

\* a replace over prior rows failed in its second batch and its rollback
\* succeeded: the prior rows are gone and the first batch is in the table
C19_Witness ==
    \E h \in Calls :
        /\ h.mode = "replace" /\ h.err = "append" /\ h.i >= batch_size
        /\ Len(h.pre.rows) > 0
        /\ h.trace[Len(h.trace) - 1] = "rollback"
        /\ h.post.rows # h.pre.rows
        /\ Len(h.post.rows) = batch_size

\* C20: the loader does not coordinate concurrent calls.  A replace that
\* returned True leaves exactly its dataset in the table when no other call
\* ran during it; a replace and an append that interleave can both return
\* True with a table that is not the dataset of the replace (C20_Witness).
C20_ReplaceExactWhenAlone ==
    \A h \in Calls :
        h.mode = "replace" /\ h.ret = "True" /\ ~h.overlap =>
            h.post.rows = PadAll(WithoutInternal(h.arg), h.post.cols)

\* a replace of two batches and an append ran concurrently and both returned
\* True; the row of the append sits between the two batches of the replace
C20_Witness ==
    /\ Len(hist) = 2
    /\ \E h \in Calls : \E g \in Calls :
          /\ h.mode = "replace" /\ h.ret = "True" /\ h.overlap
          /\ g.mode = "append" /\ g.ret = "True" /\ g.overlap
          /\ Len(h.arg.rows) > batch_size /\ Len(g.arg.rows) = 1
          /\ db.rows # PadAll(WithoutInternal(h.arg), db.cols)
          /\ Len(db.rows) = Len(h.arg.rows) + 1
          /\ db.rows[batch_size + 1] = Pad(g.arg.rows[1], db.cols)

\* loader l runs the CREATE TABLE of _create_table and it succeeds
Creates(l) ==
    /\ loader[l].pc = "create_table"
    /\ loader'[l].pc \notin {"create_table", "except"}

\* every row the table held before the call h is in the table after it,
\* unchanged or, in upsert mode, overwritten by a row of the call's key
PriorRowsKept(h) ==
    LET D == WithoutInternal(h.arg) IN
    /\ h.post.exists
    /\ h.post.cols = h.pre.cols
    /\ Len(h.post.rows) >= Len(h.pre.rows)
    /\ \A n \in 1..Len(h.pre.rows) :
          \/ h.post.rows[n] = h.pre.rows[n]
          \/ /\ h.mode = "upsert"
             /\ h.post.rows[n][codigo] = h.pre.rows[n][codigo]
             /\ \E k \in 1..Len(D) : D[k][codigo] = h.pre.rows[n][codigo]

\* C23: load() creates the table only when the table does not exist, so it
\* never drops or re-creates an existing table; after every append or upsert
\* against an existing table, successful or not, every row the table held
\* is still there, unchanged or overwritten by a row of the same key.
C23_ExistingTableKept ==
    /\ [][\A l \in AllLoaders : Creates(l) => ~db.exists]_vars
    /\ [](\A h \in Calls :
             h.mode \in {"append", "upsert"} /\ h.pre.exists => PriorRowsKept(h))

Output == main.df_clean.rows

\* C22: after a successful transform() no two rows of the output are
\* identical, rows that differed only by leading or trailing whitespace
\* included; no row has a null codigo or descricao; and rows_removed is
\* rows_input minus rows_output.
C22_OutputClean ==
    "transform" \in main.ok =>
        /\ \A m \in 1..Len(Output) : \A n \in 1..Len(Output) : m # n => Output[m] # Output[n]
        /\ \A n \in 1..Len(Output) : \A c \in critical_columns : Output[n][c] # NaN
        /\ main.metrics.rows_output = Len(Output)
        /\ main.metrics.rows_removed = main.metrics.rows_input - main.metrics.rows_output

====
